---- MODULE Spec2Model ----
(***************************************************************************)
(* Model of the gesture pipeline of the Christmas-Tree application:        *)
(*   - GestureService (services/gestureService.ts, src/unnamed/part_000):  *)
(*     the requestAnimationFrame loop, frame dedup and the classifier      *)
(*     processDetections;                                                  *)
(*   - App (App.tsx, src/unnamed/part_001): the React state, the mode      *)
(*     transition effect, the photo upload and the webcam start.           *)
(*                                                                         *)
(* Numbers.  Landmark coordinates are normalized to [0,1]; the model keeps *)
(* them as integers in hundredths (Unit = 1.0), so the thresholds 0.2, 0.3 *)
(* and 0.08 are 20, 30 and 8.  Math.sqrt(a) < t is evaluated exactly, as   *)
(* a < t*t on the squared distance.  The centroid and the published hand   *)
(* position are exact fractions [n, d] in lowest terms.                    *)
(***************************************************************************)
EXTENDS Integers, Sequences, FiniteSets, TLC

VARIABLES
  \* ---- App (React state of part_001) ----
  mode,             \* AppMode
  photos,           \* sequence of photo ids (PhotoData.id)
  selectedPhotoId,  \* a photo id, or NullId
  gestureState,     \* the latest GestureState handed to setGestureState
  loading,          \* true until initVision finished
  webcamEnabled,
  initStatus,       \* "pending" | "done" | "failed": GestureService.initialize()
  gumPending,       \* startWebcam calls awaiting getUserMedia
  nextPhotoId,      \* source of fresh ids (uuidv4)
  \* ---- GestureService (part_000) ----
  handLandmarker,   \* "null" | "loaded"
  video,            \* "null" | "element"
  lastVideoTime,
  requestRef,       \* NullRef or the id of the latest requestAnimationFrame call
  \* ---- environment: the video element and the frame scheduler ----
  vid,              \* [readyState, videoWidth, videoHeight, currentTime]
  rafPending,       \* ids of the frame callbacks waiting in the scheduler
  \* ---- observation of the last step (history, read by the properties only) ----
  last

vars == <<mode, photos, selectedPhotoId, gestureState, loading, webcamEnabled,
          initStatus, gumPending, nextPhotoId,
          handLandmarker, video, lastVideoTime, requestRef,
          vid, rafPending, last>>

appVars == <<mode, photos, selectedPhotoId, gestureState, loading, webcamEnabled,
             initStatus, gumPending, nextPhotoId>>
svcVars == <<handLandmarker, video, lastVideoTime, requestRef>>
envVars == <<vid, rafPending>>

----------------------------------------------------------------------------
(* Bounds of the model *)
MaxPhotos == 2      \* photos ever uploaded
MaxTime == 1        \* largest playback time the video reaches
MaxLoops == 2       \* frame callbacks pending at once
MaxGum == 1         \* getUserMedia requests in flight

(* Program constants *)
Unit == 100         \* the normalized coordinate 1.0, in hundredths
FistDist == 20      \* 0.2
OpenDist == 30      \* 0.3
PinchDist == 8      \* 0.08
HaveCurrentData == 2
NullId == 0         \* selectedPhotoId = null
NullRef == 0        \* requestRef = null
NoTime == -1        \* initial lastVideoTime

TREE == "TREE"
SCATTER == "SCATTER"
ZOOM == "ZOOM"
AppMode == {TREE, SCATTER, ZOOM}

----------------------------------------------------------------------------
(* Exact fractions *)
RECURSIVE Gcd(_, _)
Gcd(a, b) == IF b = 0 THEN a ELSE Gcd(b, a % b)

Frac(n, d) == LET g == Gcd(IF n < 0 THEN -n ELSE n, d)
              IN  [n |-> n \div g, d |-> d \div g]

Half == Frac(1, 2)

----------------------------------------------------------------------------
(* GestureService.processDetections: the classifier *)

\* landmark indices that the classifier reads by name
WRIST == 0
THUMB_TIP == 4
INDEX_TIP == 8
MIDDLE_TIP == 12
RING_TIP == 16
PINKY_TIP == 20

\* squared Euclidean distance, in squared hundredths
Dist2(p1, p2) == (p1.x - p2.x) * (p1.x - p2.x) + (p1.y - p2.y) * (p1.y - p2.y)

\* dist(p1, p2) < t  and  dist(p1, p2) > t
DistLess(p1, p2, t) == Dist2(p1, p2) < t * t
DistGreater(p1, p2, t) == Dist2(p1, p2) > t * t

RECURSIVE SumX(_, _)
SumX(landmarks, n) == IF n = 0 THEN 0 ELSE landmarks[n - 1].x + SumX(landmarks, n - 1)
RECURSIVE SumY(_, _)
SumY(landmarks, n) == IF n = 0 THEN 0 ELSE landmarks[n - 1].y + SumY(landmarks, n - 1)

\* landmarks.length of a 0-indexed array
Length(landmarks) == Cardinality(DOMAIN landmarks)

NoHandState ==
  [isHandDetected |-> FALSE, gesture |-> "None", handPosition |-> [x |-> Half, y |-> Half]]

isFist(landmarks) ==
  /\ DistLess(landmarks[INDEX_TIP], landmarks[WRIST], FistDist)
  /\ DistLess(landmarks[MIDDLE_TIP], landmarks[WRIST], FistDist)
  /\ DistLess(landmarks[RING_TIP], landmarks[WRIST], FistDist)
  /\ DistLess(landmarks[PINKY_TIP], landmarks[WRIST], FistDist)

isOpen_ThumbForIndex(landmarks) ==
  /\ DistGreater(landmarks[THUMB_TIP], landmarks[WRIST], OpenDist)
  /\ DistGreater(landmarks[MIDDLE_TIP], landmarks[WRIST], OpenDist)
  /\ DistGreater(landmarks[RING_TIP], landmarks[WRIST], OpenDist)
  /\ DistGreater(landmarks[PINKY_TIP], landmarks[WRIST], OpenDist)
isOpen(landmarks) ==
  /\ DistGreater(landmarks[INDEX_TIP], landmarks[WRIST], OpenDist)
  /\ DistGreater(landmarks[MIDDLE_TIP], landmarks[WRIST], OpenDist)
  /\ DistGreater(landmarks[RING_TIP], landmarks[WRIST], OpenDist)
  /\ DistGreater(landmarks[PINKY_TIP], landmarks[WRIST], OpenDist)

isPinch(landmarks) == DistLess(landmarks[THUMB_TIP], landmarks[INDEX_TIP], PinchDist)

detectedGesture_PinchFirst(landmarks) ==
  IF isPinch(landmarks) THEN "Pinch"
  ELSE IF isFist(landmarks) THEN "Closed_Fist"
  ELSE IF isOpen(landmarks) THEN "Open_Palm"
  ELSE "None"
detectedGesture(landmarks) ==
  IF isFist(landmarks) THEN "Closed_Fist"
  ELSE IF isPinch(landmarks) THEN "Pinch"
  ELSE IF isOpen(landmarks) THEN "Open_Palm"
  ELSE "None"

\* handPosition: { x: 1 - handX, y: handY } with handX = xSum / length
handPositionOf_NotMirrored(landmarks) ==
  LET len == Length(landmarks)
      xSum == SumX(landmarks, len)
      ySum == SumY(landmarks, len)
  IN  [x |-> Frac(xSum, Unit * len), y |-> Frac(ySum, Unit * len)]
handPositionOf(landmarks) ==
  LET len == Length(landmarks)
      xSum == SumX(landmarks, len)
      ySum == SumY(landmarks, len)
  IN  [x |-> Frac(Unit * len - xSum, Unit * len), y |-> Frac(ySum, Unit * len)]

\* the GestureState processDetections hands to onResult
processDetections(result) ==
  IF Len(result.landmarks) = 0
  THEN NoHandState
  ELSE LET landmarks == result.landmarks[1]
       IN  [isHandDetected |-> TRUE,
            gesture |-> detectedGesture(landmarks),
            handPosition |-> handPositionOf(landmarks)]

----------------------------------------------------------------------------
(* Inputs: what the Landmark Provider (detectForVideo) can return *)

Pt(x, y) == [x |-> x, y |-> y]

\* a pose of 21 landmarks: the six the classifier names, the other 15 at rest
MkPose(wrist, thumb, index, middle, ring, pinky, rest) ==
  [i \in 0..PINKY_TIP |->
     CASE i = WRIST -> wrist
       [] i = THUMB_TIP -> thumb
       [] i = INDEX_TIP -> index
       [] i = MIDDLE_TIP -> middle
       [] i = RING_TIP -> ring
       [] i = PINKY_TIP -> pinky
       [] OTHER -> rest]

NoHandResult == [landmarks |-> <<>>]
HandResult(pose) == [landmarks |-> <<pose>>]

\* one pose per gesture, for the runs of the whole program
FistPose == MkPose(Pt(50, 90), Pt(60, 80), Pt(50, 75), Pt(55, 75), Pt(45, 75), Pt(40, 80), Pt(50, 80))
PinchPose == MkPose(Pt(50, 90), Pt(45, 55), Pt(50, 50), Pt(55, 75), Pt(60, 75), Pt(65, 80), Pt(50, 80))
OpenPose == MkPose(Pt(20, 90), Pt(0, 60), Pt(10, 40), Pt(20, 35), Pt(30, 40), Pt(40, 50), Pt(20, 70))
NonePose == MkPose(Pt(80, 90), Pt(60, 80), Pt(80, 50), Pt(80, 65), Pt(85, 75), Pt(90, 80), Pt(80, 80))
SamplePoses == {FistPose, PinchPose, OpenPose, NonePose}

\* a call of detectForVideo returns a result or throws
DetectOutcomes ==
  {[threw |-> TRUE, result |-> NoHandResult]}
    \cup {[threw |-> FALSE, result |-> r] : r \in {NoHandResult} \cup {HandResult(p) : p \in SamplePoses}}

----------------------------------------------------------------------------
(* App: the state transition effect (useEffect of part_001, lines 59-94) *)

\* Math.floor(Math.random() * photos.length)
RandomIdx(ph) == 0..(Len(ph) - 1)

\* setMode(AppMode.TREE); setSelectedPhotoId(null)
ToTree_KeepsSelection(sel) == [mode |-> TREE, sel |-> sel]
ToTree(sel) == [mode |-> TREE, sel |-> NullId]

\* Open_Palm: if (mode === AppMode.TREE) setMode(AppMode.SCATTER)
OpenPalmBranch_AnyMode(m, sel) == {[mode |-> SCATTER, sel |-> sel]}
OpenPalmBranch(m, sel) ==
  IF m = TREE
  THEN {[mode |-> SCATTER, sel |-> sel]}
  ELSE {[mode |-> m, sel |-> sel]}

\* Pinch: if (mode !== AppMode.ZOOM && photos.length > 0) { setMode(AppMode.ZOOM);
\* if (!selectedPhotoId) setSelectedPhotoId(photos[randomIdx].id) }
PinchBranch_TreeOnly(m, ph, sel) ==
  IF m = TREE /\ Len(ph) > 0
  THEN {[mode |-> ZOOM, sel |-> ph[randomIdx + 1]] : randomIdx \in RandomIdx(ph)}
  ELSE {[mode |-> m, sel |-> sel]}
PinchBranch_Reselects(m, ph, sel) ==
  IF Len(ph) > 0
  THEN {[mode |-> ZOOM, sel |-> ph[Len(ph)]]}
  ELSE {[mode |-> m, sel |-> sel]}
PinchBranch(m, ph, sel) ==
  IF m # ZOOM /\ Len(ph) > 0
  THEN IF sel = NullId
       THEN {[mode |-> ZOOM, sel |-> ph[randomIdx + 1]] : randomIdx \in RandomIdx(ph)}
       ELSE {[mode |-> ZOOM, sel |-> sel]}
  ELSE {[mode |-> m, sel |-> sel]}

\* the (mode, selectedPhotoId) pairs one run of the effect can leave
EffectOutcomes(gs, m, ph, sel) ==
  IF ~gs.isHandDetected
  THEN IF m # TREE
       THEN {ToTree(sel)}
       ELSE {[mode |-> m, sel |-> sel]}
  ELSE IF gs.gesture = "Closed_Fist" /\ m # TREE
  THEN {ToTree(sel)}
  ELSE IF gs.gesture = "Open_Palm"
  THEN OpenPalmBranch(m, sel)
  ELSE IF gs.gesture = "Pinch"
  THEN PinchBranch(m, ph, sel)
  ELSE {[mode |-> m, sel |-> sel]}

\* the record of a step: what ran, and the mode and selection it started from
Seen(op) ==
  [op |-> op, mode |-> mode, sel |-> selectedPhotoId, evaluated |-> FALSE,
   looped |-> FALSE, accepted |-> FALSE, calls |-> 0, threw |-> FALSE,
   published |-> 0, result |-> NoHandResult,
   runTime |-> last.runTime, runCalls |-> last.runCalls]

\* React runs the effect after every render in which one of its dependencies
\* [gestureState, mode, photos, selectedPhotoId] changed, and before the next
\* render: the (mode, selectedPhotoId) pairs left once the effect, run again after
\* each change it makes, changes nothing more
RECURSIVE Rendered(_, _, _, _)
Rendered(gs, m, ph, sel) ==
  UNION {IF o.mode = m /\ o.sel = sel
         THEN {o}
         ELSE Rendered(gs, o.mode, ph, o.sel) : o \in EffectOutcomes(gs, m, ph, sel)}

\* handleFileUpload with e.target.files holding n files
FreshIds(n) == [i \in 1..n |-> nextPhotoId + i - 1]

handleFileUpload ==
  /\ \E n \in 0..(MaxPhotos - Len(photos)) :
       /\ photos' = photos \o FreshIds(n)
       /\ nextPhotoId' = nextPhotoId + n
       /\ \E o \in Rendered(gestureState, mode, photos \o FreshIds(n), selectedPhotoId) :
            /\ mode' = o.mode
            /\ selectedPhotoId' = o.sel
  /\ last' = [Seen("upload") EXCEPT !.evaluated = TRUE]
  /\ UNCHANGED <<gestureState, loading, webcamEnabled, initStatus, gumPending>>
  /\ UNCHANGED svcVars
  /\ UNCHANGED envVars

\* initVision: await initialize() resolved, then setLoading(false)
InitializeDone ==
  /\ initStatus = "pending"
  /\ initStatus' = "done"
  /\ handLandmarker' = "loaded"
  /\ loading' = FALSE
  /\ last' = Seen("initializeDone")
  /\ UNCHANGED <<mode, photos, selectedPhotoId, gestureState, webcamEnabled,
                 gumPending, nextPhotoId>>
  /\ UNCHANGED <<video, lastVideoTime, requestRef>>
  /\ UNCHANGED envVars

\* initialize() rejected: setLoading(false) is never reached
InitializeFailed ==
  /\ initStatus = "pending"
  /\ initStatus' = "failed"
  /\ last' = Seen("initializeFailed")
  /\ UNCHANGED <<mode, photos, selectedPhotoId, gestureState, loading, webcamEnabled,
                 gumPending, nextPhotoId>>
  /\ UNCHANGED svcVars
  /\ UNCHANGED envVars

----------------------------------------------------------------------------
(* GestureService: start, stop and the loop (part_000, lines 30-59) *)

\* the video has a decoded frame: readyState >= 2, non-zero width and height
FrameReady(v) ==
  /\ v.readyState >= HaveCurrentData
  /\ v.videoWidth > 0
  /\ v.videoHeight > 0

\* the condition under which the loop calls detectForVideo
FrameAccepted_NoDedup(vd, lm, v, lvt) ==
  /\ vd # "null"
  /\ lm # "null"
  /\ FrameReady(v)
FrameAccepted_NoLandmarker(vd, lm, v, lvt) ==
  /\ vd # "null"
  /\ FrameReady(v)
  /\ v.currentTime # lvt
FrameAccepted(vd, lm, v, lvt) ==
  /\ vd # "null"
  /\ lm # "null"
  /\ FrameReady(v)
  /\ v.currentTime # lvt

\* what a run of the loop does with the frame: nothing, or one detectForVideo call
\* whose result, unless it threw, processDetections hands to onResult
LoopOutcomes_PublishOnThrow(accepted) ==
  IF accepted
  THEN {[calls |-> 1, threw |-> d.threw, published |-> 1, result |-> d.result] :
          d \in DetectOutcomes}
  ELSE {[calls |-> 0, threw |-> FALSE, published |-> 0, result |-> NoHandResult]}
LoopOutcomes(accepted) ==
  IF accepted
  THEN {[calls |-> 1, threw |-> d.threw, published |-> IF d.threw THEN 0 ELSE 1,
         result |-> d.result] : d \in DetectOutcomes}
  ELSE {[calls |-> 0, threw |-> FALSE, published |-> 0, result |-> NoHandResult]}

\* lastVideoTime after a run of the loop
NextLastVideoTime(accepted, v, lvt) == IF accepted THEN v.currentTime ELSE lvt

\* the handle requestAnimationFrame returns: a positive id no pending callback has
\* (handles are compared only by cancelAnimationFrame, so a spent one may come back)
RafId(queue) == CHOOSE id \in 1..(Cardinality(queue) + 1) : id \notin queue

\* the callbacks pending after the loop called requestAnimationFrame(this.loop)
Reschedule(queue, id) == queue \cup {id}

\* One run of the loop body.  vd and v are the video reference and the video
\* element it sees, queue the scheduler's callbacks when the body starts.
Loop(op, vd, v, queue) ==
  LET accepted == FrameAccepted(vd, handLandmarker, v, lastVideoTime)
      sameRun == last.runTime = v.currentTime
  IN  /\ Cardinality(queue) < MaxLoops
      /\ \E o \in LoopOutcomes(accepted) :
           /\ IF o.published = 1
              THEN /\ gestureState' = processDetections(o.result)
                   /\ \E e \in Rendered(processDetections(o.result), mode, photos,
                                         selectedPhotoId) :
                        /\ mode' = e.mode
                        /\ selectedPhotoId' = e.sel
              ELSE UNCHANGED <<gestureState, mode, selectedPhotoId>>
           /\ last' = [Seen(op) EXCEPT !.looped = TRUE, !.evaluated = (o.published = 1), !.accepted = accepted,
                         !.calls = o.calls, !.threw = o.threw,
                         !.published = o.published, !.result = o.result,
                         !.runTime = v.currentTime,
                         !.runCalls = (IF sameRun THEN last.runCalls ELSE 0) + o.calls]
      /\ lastVideoTime' = NextLastVideoTime(accepted, v, lastVideoTime)
      /\ requestRef' = RafId(queue)
      /\ rafPending' = Reschedule(queue, RafId(queue))

\* the scheduler runs a pending frame callback: one tick of the loop
Tick ==
  /\ \E id \in rafPending : Loop("tick", video, vid, rafPending \ {id})
  /\ UNCHANGED <<photos, loading, webcamEnabled, initStatus, gumPending, nextPhotoId>>
  /\ UNCHANGED <<handLandmarker, video, vid>>

\* the video element right after srcObject is assigned: the load algorithm resets it
FreshVideo == [src |-> TRUE, readyState |-> 0, videoWidth |-> 0, videoHeight |-> 0,
               currentTime |-> 0]

\* "Enable Camera" is clicked: startWebcam runs up to await getUserMedia
startWebcam ==
  /\ ~webcamEnabled
  /\ ~loading
  /\ gumPending < MaxGum
  /\ gumPending' = gumPending + 1
  /\ last' = Seen("startWebcam")
  /\ UNCHANGED <<mode, photos, selectedPhotoId, gestureState, loading, webcamEnabled,
                 initStatus, nextPhotoId>>
  /\ UNCHANGED svcVars
  /\ UNCHANGED envVars

\* getUserMedia resolved: srcObject, play(), start(video) (which runs the loop
\* once, synchronously), setWebcamEnabled(true)
WebcamGranted ==
  /\ gumPending > 0
  /\ gumPending' = gumPending - 1
  /\ vid' = FreshVideo
  /\ video' = "element"
  /\ Loop("start", "element", FreshVideo, rafPending)
  /\ webcamEnabled' = TRUE
  /\ UNCHANGED <<photos, loading, initStatus, nextPhotoId>>
  /\ UNCHANGED handLandmarker

\* getUserMedia rejected: the catch branch, nothing starts
WebcamDenied ==
  /\ gumPending > 0
  /\ gumPending' = gumPending - 1
  /\ last' = Seen("webcamDenied")
  /\ UNCHANGED <<mode, photos, selectedPhotoId, gestureState, loading, webcamEnabled,
                 initStatus, nextPhotoId>>
  /\ UNCHANGED svcVars
  /\ UNCHANGED envVars

\* start(videoElement) called by a host of the service
start ==
  /\ video' = "element"
  /\ Loop("start", "element", vid, rafPending)
  /\ UNCHANGED <<photos, loading, webcamEnabled, initStatus, gumPending, nextPhotoId>>
  /\ UNCHANGED <<handLandmarker, vid>>

\* a host of the service that goes on although initialize() rejected gives the
\* video element a stream and plays it, as startWebcam does: the loop then sees
\* decoded frames with no model loaded
setSrcObject ==
  /\ initStatus = "failed"
  /\ ~vid.src
  /\ vid' = FreshVideo
  /\ last' = Seen("video")
  /\ UNCHANGED appVars
  /\ UNCHANGED svcVars
  /\ UNCHANGED rafPending

\* cancelAnimationFrame(id)
Cancel(queue, id) == queue \ {id}

\* stop() called by a host of the service
stop ==
  /\ rafPending' = (IF requestRef # NullRef THEN Cancel(rafPending, requestRef) ELSE rafPending)
  /\ last' = Seen("stop")
  /\ UNCHANGED appVars
  /\ UNCHANGED svcVars
  /\ UNCHANGED vid

----------------------------------------------------------------------------
(* Environment: the video element decodes and plays its stream *)

ReadyStates == {0, 1, 2, 4}
VideoDims == {0, 640}

\* the element loads: readyState rises, the dimensions become known
VideoLoad ==
  /\ vid.src
  /\ \E rs \in ReadyStates, w \in VideoDims, h \in VideoDims :
       /\ rs > vid.readyState
       /\ vid' = [vid EXCEPT !.readyState = rs, !.videoWidth = w, !.videoHeight = h]
  /\ last' = Seen("video")
  /\ UNCHANGED appVars
  /\ UNCHANGED svcVars
  /\ UNCHANGED rafPending

\* playback advances to the next frame
TimeUpdate ==
  /\ vid.src
  /\ vid.currentTime < MaxTime
  /\ vid' = [vid EXCEPT !.currentTime = vid.currentTime + 1]
  /\ last' = Seen("video")
  /\ UNCHANGED appVars
  /\ UNCHANGED svcVars
  /\ UNCHANGED rafPending

----------------------------------------------------------------------------
(* The program after mount: mode Tree, no photos, no selection, the service *)
(* constructed and initialize() awaited; the effect has run after the first   *)
(* render and changed nothing                                               *)

InitialGestureState ==
  [isHandDetected |-> FALSE, gesture |-> "None", handPosition |-> [x |-> Half, y |-> Half]]

NoVideo == [src |-> FALSE, readyState |-> 0, videoWidth |-> 0, videoHeight |-> 0,
            currentTime |-> 0]

Init ==
  /\ mode = TREE
  /\ photos = <<>>
  /\ selectedPhotoId = NullId
  /\ gestureState = InitialGestureState
  /\ loading = TRUE
  /\ webcamEnabled = FALSE
  /\ initStatus = "pending"
  /\ gumPending = 0
  /\ nextPhotoId = 1
  /\ handLandmarker = "null"
  /\ video = "null"
  /\ lastVideoTime = NoTime
  /\ requestRef = NullRef
  /\ vid = NoVideo
  /\ rafPending = {}
  /\ last = [op |-> "mount", mode |-> TREE, sel |-> NullId, evaluated |-> TRUE,
             looped |-> FALSE, accepted |-> FALSE, calls |-> 0, threw |-> FALSE,
             published |-> 0, result |-> NoHandResult,
             runTime |-> NoTime, runCalls |-> 0]

\* the application as it is wired in App
Next ==
  \/ handleFileUpload
  \/ InitializeDone
  \/ InitializeFailed
  \/ startWebcam
  \/ WebcamGranted
  \/ WebcamDenied
  \/ Tick
  \/ VideoLoad
  \/ TimeUpdate

Spec == Init /\ [][Next]_vars

\* the service driven by any host: start() and stop() called at any time, on a
\* video element the host may have given a stream itself
NextService ==
  \/ Next
  \/ start
  \/ stop
  \/ setSrcObject

SpecService == Init /\ [][NextService]_vars

----------------------------------------------------------------------------
(* The classifier alone: processDetections applied to every result of a grid *)

\* wrist positions: the centre and two corners of the frame
WristPts == {Pt(50, 50), Pt(0, 0), Pt(100, 100)}

\* fingertip positions; from the wrist at the centre they lie at distance 10, 19,
\* 20 (3-4-5 triangle), 30, 31 and at the two corners
TipPts == {Pt(50, 40), Pt(50, 31), Pt(38, 34), Pt(50, 20), Pt(50, 19), Pt(0, 0), Pt(100, 100)}

\* thumb tip, as an offset from the index tip: at distance 0, 7, under 8
\* (5-6), 8, and over 8 (6-6)
ThumbOffsets == {Pt(0, 0), Pt(7, 0), Pt(-7, 0), Pt(5, 6), Pt(-5, -6), Pt(8, 0), Pt(-8, 0),
                 Pt(6, 6), Pt(-6, -6)}

\* the other 15 landmarks
RestPts == {Pt(0, 0), Pt(100, 100)}

InFrame(p) == p.x >= 0 /\ p.x <= Unit /\ p.y >= 0 /\ p.y <= Unit

ThumbPts(index) ==
  {p \in {Pt(index.x + o.x, index.y + o.y) : o \in ThumbOffsets} : InFrame(p)}

InputRecord(r) ==
  [op |-> "input", mode |-> TREE, sel |-> NullId, evaluated |-> FALSE,
   looped |-> FALSE, accepted |-> FALSE, calls |-> 0, threw |-> FALSE,
   published |-> 0, result |-> r, runTime |-> NoTime, runCalls |-> 0]

\* the program after mount, about to be handed one result of the grid
InitClassify ==
  /\ mode = TREE
  /\ photos = <<>>
  /\ selectedPhotoId = NullId
  /\ gestureState = InitialGestureState
  /\ loading = TRUE
  /\ webcamEnabled = FALSE
  /\ initStatus = "pending"
  /\ gumPending = 0
  /\ nextPhotoId = 1
  /\ handLandmarker = "null"
  /\ video = "null"
  /\ lastVideoTime = NoTime
  /\ requestRef = NullRef
  /\ vid = NoVideo
  /\ rafPending = {}
  /\ \/ last = InputRecord(NoHandResult)
     \/ \E w \in WristPts, i \in TipPts, m \in TipPts, r \in TipPts, p \in TipPts,
           o \in RestPts :
          \E t \in ThumbPts(i) : last = InputRecord(HandResult(MkPose(w, t, i, m, r, p, o)))

\* processDetections(result) runs and onResult (setGestureState) takes its state
Classify ==
  /\ last.op = "input"
  /\ gestureState' = processDetections(last.result)
  /\ \E e \in Rendered(processDetections(last.result), mode, photos, selectedPhotoId) :
       /\ mode' = e.mode
       /\ selectedPhotoId' = e.sel
  /\ last' = [Seen("classify") EXCEPT !.evaluated = TRUE, !.published = 1,
                                      !.result = last.result]
  /\ UNCHANGED <<photos, loading, webcamEnabled, initStatus, gumPending, nextPhotoId>>
  /\ UNCHANGED svcVars
  /\ UNCHANGED envVars

\* after a hand was classified, the next result handed over holds no hand
NoHandNext ==
  /\ last.op = "classify"
  /\ last.result # NoHandResult
  /\ last' = [Seen("input") EXCEPT !.result = NoHandResult]
  /\ UNCHANGED appVars
  /\ UNCHANGED svcVars
  /\ UNCHANGED envVars

NextClassify ==
  \/ Classify
  \/ NoHandNext

SpecClassify == InitClassify /\ [][NextClassify]_vars

----------------------------------------------------------------------------
(* Properties of the mode machine, checked on the application (Spec) *)

Range(f) == {f[i] : i \in DOMAIN f}

\* the Gesture State evaluated by the last step: a tick that published hands the
\* effect the new state, an upload re-evaluates the one already held
Evaluated == last.evaluated /\ last.op \in {"tick", "start", "upload"}
HandGesture(g) == gestureState.isHandDetected /\ gestureState.gesture = g

\* C1: in every reachable state a selected photo implies mode = Zoom, and the
\* selected id is the id of a photo in the photo collection
C1_SelectionOnlyInZoom ==
  selectedPhotoId # NullId => (mode = ZOOM /\ selectedPhotoId \in Range(photos))

C1_Witness ==
  /\ selectedPhotoId # NullId
  /\ Len(photos) = MaxPhotos
  /\ Evaluated
  /\ last.sel = NullId

\* every Gesture State that reports no hand, or reports a closed fist
RevertingStates ==
  {[isHandDetected |-> d, gesture |-> g, handPosition |-> [x |-> Half, y |-> Half]] :
     <<d, g>> \in {<<FALSE, "Closed_Fist">>, <<FALSE, "Open_Palm">>, <<FALSE, "Pinch">>,
                  <<FALSE, "None">>, <<TRUE, "Closed_Fist">>}}

\* C2: from every reachable mode, evaluating a Gesture State with no hand detected
\* (whatever its gesture), or with gesture Closed_Fist, leaves mode = Tree and no
\* selected photo; so does every such evaluation the program performs
C2_NoHandOrFistLeavesTree ==
  /\ \A gs \in RevertingStates :
       \A o \in Rendered(gs, mode, photos, selectedPhotoId) :
         o.mode = TREE /\ o.sel = NullId
  /\ (Evaluated /\ (~gestureState.isHandDetected \/ gestureState.gesture = "Closed_Fist"))
       => (mode = TREE /\ selectedPhotoId = NullId)

C2_Witness ==
  /\ Evaluated
  /\ HandGesture("Closed_Fist")
  /\ last.mode = ZOOM
  /\ last.sel # NullId
  /\ mode = TREE
  /\ selectedPhotoId = NullId

\* C3: evaluating Open_Palm with a hand detected in mode Tree gives Scatter and
\* keeps the selection; a step enters Scatter only that way, from Tree
C3_ScatterOnlyFromTreeByOpenPalm ==
  /\ (Evaluated /\ last.mode = TREE /\ HandGesture("Open_Palm"))
       => (mode = SCATTER /\ selectedPhotoId = last.sel)
  /\ (mode = SCATTER /\ last.mode # SCATTER)
       => (Evaluated /\ last.mode = TREE /\ HandGesture("Open_Palm"))

C3_Witness ==
  /\ Evaluated
  /\ HandGesture("Open_Palm")
  /\ last.mode = TREE
  /\ mode = SCATTER
  /\ Len(photos) > 0

\* C4: evaluating Pinch with a hand detected in mode Tree or Scatter with photos
\* gives Zoom, selecting a member of the collection if none was selected; with no
\* photos the mode is never Zoom
C4_PinchZoomsOnAPhoto ==
  /\ (Evaluated /\ HandGesture("Pinch") /\ last.mode \in {TREE, SCATTER} /\ Len(photos) > 0)
       => /\ mode = ZOOM
          /\ last.sel = NullId => selectedPhotoId \in Range(photos)
  /\ Len(photos) = 0 => mode # ZOOM

C4_Witness ==
  /\ Evaluated
  /\ HandGesture("Pinch")
  /\ last.mode = SCATTER
  /\ last.sel = NullId
  /\ mode = ZOOM
  /\ selectedPhotoId = photos[Len(photos)]
  /\ Len(photos) = MaxPhotos

\* transition rules 1-4 of the mode machine, on the mode m before the evaluation
Rule1(m) == ~gestureState.isHandDetected /\ m # TREE
Rule2(m) == gestureState.isHandDetected /\ gestureState.gesture = "Closed_Fist" /\ m # TREE
Rule3(m) == HandGesture("Open_Palm") /\ m = TREE
Rule4(m) == HandGesture("Pinch") /\ m # ZOOM /\ Len(photos) > 0

\* C5: an evaluation that matches none of rules 1-4 leaves the mode and the
\* selected photo unchanged; Pinch while in Zoom keeps the selected photo
C5_NoRuleNoChange ==
  (Evaluated /\ ~Rule1(last.mode) /\ ~Rule2(last.mode) /\ ~Rule3(last.mode) /\ ~Rule4(last.mode))
    => (mode = last.mode /\ selectedPhotoId = last.sel)

C5_Witness ==
  /\ Evaluated
  /\ last.op = "tick"
  /\ HandGesture("Pinch")
  /\ last.mode = ZOOM
  /\ mode = ZOOM
  /\ selectedPhotoId = last.sel
  /\ Len(photos) = MaxPhotos

----------------------------------------------------------------------------
(* Properties of the classifier, checked on the grid (SpecClassify) *)

Classified == last.op = "classify"
HandSeen == Len(last.result.landmarks) > 0
Pose == last.result.landmarks[1]

\* squared distance between landmarks i and j of the classified pose, in
\* squared hundredths: 0.20, 0.08 and 0.30 squared are 400, 64 and 900
Sq(i, j) ==
  (Pose[i].x - Pose[j].x) * (Pose[i].x - Pose[j].x)
    + (Pose[i].y - Pose[j].y) * (Pose[i].y - Pose[j].y)

FourTips == {8, 12, 16, 20}
RefFist == \A t \in FourTips : Sq(t, 0) < 400
RefPinch == Sq(4, 8) < 64
RefOpen == \A t \in FourTips : Sq(t, 0) > 900

\* C6: the gesture of every classified pose is the first match of: Closed_Fist if
\* the four fingertips are all nearer than 0.20 to the wrist, Pinch if thumb tip and
\* index tip are nearer than 0.08, Open_Palm if the four fingertips are all farther
\* than 0.30 from the wrist, else None; the comparisons are strict
C6_FirstMatchWins ==
  (Classified /\ HandSeen) =>
    /\ gestureState.isHandDetected
    /\ RefFist => gestureState.gesture = "Closed_Fist"
    /\ (~RefFist /\ RefPinch) => gestureState.gesture = "Pinch"
    /\ (~RefFist /\ ~RefPinch /\ RefOpen) => gestureState.gesture = "Open_Palm"
    /\ (~RefFist /\ ~RefPinch /\ ~RefOpen) => gestureState.gesture = "None"

\* a pose that is both a fist and a pinch, with a fingertip just inside 0.20
C6_Witness ==
  /\ Classified
  /\ HandSeen
  /\ RefFist
  /\ RefPinch
  /\ \E t \in FourTips : Sq(t, 0) = 361
  /\ gestureState.gesture = "Closed_Fist"

\* C7 as stated: every pose whose four fingertips are all farther than 0.3 from the
\* wrist, and which is no fist, is classified Open_Palm
C7_OpenPalmWheneverTipsFar ==
  (Classified /\ HandSeen /\ RefOpen /\ ~RefFist) => gestureState.gesture = "Open_Palm"

\* C7 amended: every pose whose four fingertips are all farther than 0.3 from the
\* wrist and whose thumb tip is not nearer than 0.08 to the index tip is classified
\* Open_Palm
C7_OpenPalmUnlessPinch ==
  (Classified /\ HandSeen /\ RefOpen /\ ~RefPinch) => gestureState.gesture = "Open_Palm"

C7_Witness ==
  /\ Classified
  /\ HandSeen
  /\ RefOpen
  /\ Sq(4, 8) = 64
  /\ \E t \in FourTips : Sq(t, 0) = 961
  /\ gestureState.gesture = "Open_Palm"

\* the sum of coordinate c over the landmarks idx of the classified pose
RECURSIVE CoordSum(_, _)
CoordSum(c, idx) ==
  IF idx = {}
  THEN 0
  ELSE LET i == CHOOSE j \in idx : TRUE
       IN  (IF c = "x" THEN Pose[i].x ELSE Pose[i].y) + CoordSum(c, idx \ {i})

InUnitInterval(q) == q.d > 0 /\ 0 <= q.n /\ q.n <= q.d

\* C8: every published hand position lies in [0,1] x [0,1]; a result with no hand
\* publishes exactly {false, None, (0.5, 0.5)}, whatever was published before; a
\* hand publishes (1 - cx, cy), (cx, cy) the centroid of its 21 landmarks
C8_HandPosition ==
  Classified =>
    /\ InUnitInterval(gestureState.handPosition.x)
    /\ InUnitInterval(gestureState.handPosition.y)
    /\ ~HandSeen =>
         /\ gestureState.isHandDetected = FALSE
         /\ gestureState.gesture = "None"
         /\ gestureState.handPosition = [x |-> [n |-> 1, d |-> 2], y |-> [n |-> 1, d |-> 2]]
    /\ HandSeen =>
         LET x == gestureState.handPosition.x
             y == gestureState.handPosition.y
         IN  /\ x.n * 21 * 100 = x.d * (21 * 100 - CoordSum("x", 0..20))
             /\ y.n * 21 * 100 = y.d * CoordSum("y", 0..20)

\* a hand whose landmarks all lie on the left edge is published at x = 1
C8_Witness ==
  /\ Classified
  /\ HandSeen
  /\ CoordSum("x", 0..20) = 0
  /\ gestureState.handPosition.x = [n |-> 1, d |-> 1]

----------------------------------------------------------------------------
(* Properties of the loop, checked on the service under any host (SpecService) *)

\* C9: a run of the loop calls the Landmark Provider only if the video has a
\* decoded frame (readyState >= 2, non-zero width and height) whose playback time
\* differs from the last-processed time; it sets the last-processed time to the
\* playback time exactly when it calls, and leaves it alone otherwise; consecutive
\* runs that see the same playback time make at most one call between them
C9_FrameDedup ==
  [][last'.looped =>
       /\ last'.calls \in {0, 1}
       /\ last'.calls = 1 =>
            /\ vid'.readyState >= 2
            /\ vid'.videoWidth # 0
            /\ vid'.videoHeight # 0
            /\ vid'.currentTime # lastVideoTime
       /\ lastVideoTime' = (IF last'.calls = 1 THEN vid'.currentTime ELSE lastVideoTime)
       /\ last'.runCalls <= 1]_vars

\* a tick that skipped a decoded frame it had already processed
C9_Witness ==
  /\ last.op = "tick"
  /\ last.calls = 0
  /\ last.runCalls = 1
  /\ handLandmarker = "loaded"
  /\ vid.readyState >= 2 /\ vid.videoWidth # 0 /\ vid.videoHeight # 0
  /\ vid.currentTime = lastVideoTime
  /\ lastVideoTime = MaxTime

\* C10: a run of the loop whose Landmark Provider call throws publishes nothing
\* and leaves the Gesture State, the mode and the selection as they were; a call
\* that returns publishes exactly one Gesture State, the classification of its
\* result; every run re-enqueues the loop; and a tick that finds a decoded frame
\* with a new playback time calls the provider, whatever happened before
C10_ThrowSkipsTheFrame ==
  [][last'.looped =>
       /\ last'.threw =>
            /\ last'.calls = 1
            /\ last'.published = 0
            /\ UNCHANGED <<gestureState, mode, selectedPhotoId>>
       /\ (last'.calls = 1 /\ ~last'.threw) =>
            /\ last'.published = 1
            /\ gestureState'.isHandDetected = (Len(last'.result.landmarks) > 0)
       /\ last'.calls = 0 => (last'.published = 0 /\ UNCHANGED gestureState)
       /\ requestRef' # NullRef
       /\ requestRef' \in rafPending'
       /\ (/\ last'.op = "tick"
           /\ video # "null"
           /\ handLandmarker # "null"
           /\ vid.readyState >= 2 /\ vid.videoWidth # 0 /\ vid.videoHeight # 0
           /\ vid.currentTime # lastVideoTime) => last'.calls = 1]_vars

\* a tick whose call threw while a photo was zoomed: the pinch published before
\* still stands
C10_Witness ==
  /\ last.op = "tick"
  /\ last.threw
  /\ HandGesture("Pinch")
  /\ mode = ZOOM
  /\ selectedPhotoId # NullId
  /\ requestRef \in rafPending

----------------------------------------------------------------------------
(* Stopping, initialization, re-evaluation and the number of loops *)

\* stop() has returned and the loop has not run since: stop() takes requestRef
\* out of the scheduler, and every run of the loop (a start() or a tick) puts
\* the handle it stores in requestRef back there
Stopped == requestRef # NullRef /\ requestRef \notin rafPending

\* C11: once stop() has returned, no tick of the loop runs, the Landmark Provider
\* is not called and no Gesture State is published until start() is called
\* again: whatever start(), stop() and ticks came before, the only run of the
\* loop a stopped service makes is the one inside a new start()
C11_StopHaltsTheLoop ==
  [][(Stopped /\ (last'.looped \/ last'.calls = 1 \/ last'.published = 1))
       => last'.op = "start"]_vars

\* C12: the Landmark Provider is called, and a Gesture State published, only with
\* the model loaded by an initialize() that completed; a run of the loop with no
\* model loaded calls nothing, publishes nothing and re-enqueues the loop; and
\* once initialize() has failed it stays failed (no retry), loading stays set,
\* and App never asks for the camera, so it never calls start()
C12_NoInferenceBeforeLoad ==
  [][/\ (last'.calls = 1 \/ last'.published = 1) =>
          (handLandmarker = "loaded" /\ initStatus = "done")
     /\ (last'.looped /\ handLandmarker = "null") =>
          /\ last'.calls = 0
          /\ last'.published = 0
          /\ UNCHANGED <<gestureState, mode, selectedPhotoId, lastVideoTime>>
          /\ requestRef' \in rafPending'
     /\ initStatus = "failed" =>
          /\ initStatus' = "failed"
          /\ handLandmarker' = "null"
          /\ loading'
          /\ ~webcamEnabled'
          /\ gumPending' = 0
          /\ last'.op # "startWebcam"]_vars

\* initialize() failed, and a tick found a decoded frame it had never processed:
\* it called nothing and the loop is pending again
C12_Witness ==
  /\ initStatus = "failed"
  /\ loading
  /\ last.op = "tick"
  /\ handLandmarker = "null"
  /\ video # "null"
  /\ FrameReady(vid)
  /\ vid.currentTime # lastVideoTime
  /\ last.calls = 0
  /\ requestRef \in rafPending

\* the step changed the mode or the selected photo
ModeOrSelectionChanged == mode # last.mode \/ selectedPhotoId # last.sel

\* C13: the mode and the selected photo change only in a step that evaluates a
\* newly published Gesture State; a photo upload, which publishes none, leaves
\* both unchanged whatever the latest Gesture State is
C13_ChangeOnlyOnNewGestureState ==
  ModeOrSelectionChanged => (Evaluated /\ last.published = 1)

\* C13, amended: the mode and the selected photo change only in a step that
\* evaluates the rules on the latest Gesture State, which is a newly published
\* one or, after a photo upload, the one that was already there; an upload
\* changes them only by the pinch rule: the latest Gesture State is a detected
\* Pinch, the mode was not Zoom, and the mode becomes Zoom with a photo of the
\* collection selected
C13_UploadReevaluates ==
  /\ ModeOrSelectionChanged => Evaluated
  /\ (ModeOrSelectionChanged /\ last.published = 0) =>
       /\ last.op = "upload"
       /\ HandGesture("Pinch")
       /\ last.mode # ZOOM
       /\ last.sel = NullId
       /\ mode = ZOOM
       /\ selectedPhotoId \in Range(photos)
  /\ (last.op = "upload" /\ ~HandGesture("Pinch")) => ~ModeOrSelectionChanged

\* photos were uploaded while the pinch published over an empty collection was
\* still the latest Gesture State: Scatter became Zoom
C13_Witness ==
  /\ last.op = "upload"
  /\ last.published = 0
  /\ HandGesture("Pinch")
  /\ last.mode = SCATTER
  /\ mode = ZOOM
  /\ selectedPhotoId \in Range(photos)

\* C14: whatever start(), stop() and ticks have run, start() called again with
\* no stop() among them, at most one callback of the loop is pending in the
\* scheduler (so that the loop body runs at most once per refresh)
C14_OneLoopPending == Cardinality(rafPending) <= 1

====
